---------------------------- MODULE Spec2Model ----------------------------
(***************************************************************************)
(* A model of ycsettings.Settings (src/ycsettings/settings.py): the        *)
(* priority-ordered named mappings built by the constructor, the cached    *)
(* lookup Settings.get with its missing-key policy, the typed accessors    *)
(* layered on it, and the lazily memoized key enumeration.                 *)
(*                                                                         *)
(* Python strings are sequences of one-character strings, so that          *)
(* str.lower, str.strip, startswith/endswith and split are computed.       *)
(* A Python value is a record [t |-> type tag, v |-> sequence of strings]. *)
(***************************************************************************)
EXTENDS Integers, Sequences, FiniteSets, TLC

VARIABLES
    case_sensitive,    \* self.case_sensitive
    raise_exception,   \* self.raise_exception
    warn_missing,      \* self.warn_missing
    sources,           \* self.sources = search_first + list(sources)
    n_search_first,    \* len(search_first): the first entries of self.sources
    pc,                \* "init": inside __init__'s loop; "ready": constructed,
                       \* no call pending; "returned": a call has just returned
    src_idx,           \* number of entries of self.sources already loaded
    _settings,         \* self._settings, an OrderedDict name -> mapping
    _cache,            \* self._cache, normalized key -> raw value
    cache_cs,          \* history: for each key of self._cache, the effective
                       \* case_sensitive of the lookup that stored it
    _union_keys,       \* self._union_keys, None or the memoized key list
    iters,             \* the live generator objects made by __iter__
    given,             \* history: the flags and sources __init__ was given
    returned_union,    \* history: self._union_keys as the last complete
                       \* iteration or len call left it, None before any
    last               \* the most recent call and what it returned

vars == <<case_sensitive, raise_exception, warn_missing, sources, n_search_first,
          pc, src_idx, _settings, _cache, cache_cs, _union_keys, iters, given,
          returned_union, last>>

----------------------------------------------------------------------------
(* Bounds of the model *)

MaxSources == 2
MaxEntries == 2
MaxIters == 2

----------------------------------------------------------------------------
(* Strings *)

\* str.lower() on the characters the model uses
LowerChar(c) ==
    CASE c = "K" -> "k"
      [] c = "J" -> "j"
      [] c = "X" -> "x"
      [] c = "A" -> "a"
      [] c = "E" -> "e"
      [] c = "F" -> "f"
      [] c = "L" -> "l"
      [] c = "N" -> "n"
      [] c = "O" -> "o"
      [] c = "R" -> "r"
      [] c = "S" -> "s"
      [] c = "T" -> "t"
      [] c = "U" -> "u"
      [] c = "Y" -> "y"
      [] OTHER -> c

Lower(s) == [i \in DOMAIN s |-> LowerChar(s[i])]

\* str.strip(): drop leading and trailing whitespace
RECURSIVE LStrip(_)
LStrip(s) == IF s # <<>> /\ Head(s) = " " THEN LStrip(Tail(s)) ELSE s

RECURSIVE RStrip(_)
RStrip(s) ==
    IF s # <<>> /\ s[Len(s)] = " " THEN RStrip(SubSeq(s, 1, Len(s) - 1)) ELSE s

Strip(s) == RStrip(LStrip(s))

Digits == {"0", "1", "2", "3", "4", "5", "6", "7", "8", "9"}

IsDigits(s) == s # <<>> /\ \A i \in DOMAIN s : s[i] \in Digits

\* str.split(d) for a one-character delimiter: the list of the parts
RECURSIVE Split(_, _)
Split(s, d) ==
    IF \A i \in DOMAIN s : s[i] # d
    THEN <<s>>
    ELSE LET p == CHOOSE i \in DOMAIN s :
                      s[i] = d /\ \A j \in 1..(i - 1) : s[j] # d
         IN  <<SubSeq(s, 1, p - 1)>> \o Split(SubSeq(s, p + 1, Len(s)), d)

----------------------------------------------------------------------------
(* Python values *)

None == [t |-> "none", v |-> <<>>]
PyStr(s) == [t |-> "str", v |-> s]
PyInt(s) == [t |-> "int", v |-> s]
PyList(items) == [t |-> "list", v |-> items]
PyTrue == [t |-> "bool", v |-> <<"True">>]
PyFalse == [t |-> "bool", v |-> <<"False">>]

\* the raw values the sources hold: the strings "1" and "[1]"
RawValues == {PyStr(<<"1">>), PyStr(<<"[", "1", "]">>)}

\* default= arguments: omitted (None) or the string "0"
Defaults == {None, PyStr(<<"0">>)}

\* keys held by the sources, and keys asked for
SrcKeys == {<<"k">>, <<"K">>}
LookupKeys == {<<"k">>, <<"K">>, <<"x">>}

\* a per-call flag: omitted (None), True or False
FlagArgs == {"None", "True", "False"}

\* a mapping is a Python dict: a sequence of <<key, value>> entries in
\* iteration order, its keys distinct
IsDict(m) == \A i, j \in DOMAIN m : i # j => m[i][1] # m[j][1]

Dicts(keys, values, n) ==
    UNION {{m \in [1..l -> keys \X values] : IsDict(m)} : l \in 0..n}


----------------------------------------------------------------------------
(* Construction: Settings.__init__ and the names it registers under *)

\* '{}_{}'.format(prefix, i) for the prefix "dict"
FormatName(i) ==
    CASE i = 0 -> "dict_0"
      [] i = 1 -> "dict_1"
      [] i = 2 -> "dict_2"
      [] i = 3 -> "dict_3"
      [] OTHER -> "dict_4"

SettingsNames(od) == {od[i].name : i \in DOMAIN od}

\* _get_unique_name: the first of dict_0, dict_1, ... not yet in self._settings
GetUniqueName(od) ==
    FormatName(CHOOSE i \in 0..Len(od) :
                   /\ FormatName(i) \notin SettingsNames(od)
                   /\ \A j \in 0..(i - 1) : FormatName(j) \in SettingsNames(od))

\* A source is modelled by what _load_settings_from_source yields for it:
\* a source that brings its own name (the environment, a file or module
\* path, a URI) yields (source, mapping loaded from it); a dict-like object
\* yields (_get_unique_name(type name), the object itself).
NamedSource(n, m) == [kind |-> "named", name |-> n, settings |-> m]
DictSource(m) == [kind |-> "dict", name |-> "", settings |-> m]

SourceNames == {"env", "dict_0"}

YieldedName(source, od) ==
    IF source.kind = "dict" THEN GetUniqueName(od) ELSE source.name

\* OrderedDict.__setitem__: a new name is appended, an existing name keeps
\* its position and gets the new mapping
OrderedDictSet(od, n, m) ==
    IF n \in SettingsNames(od)
    THEN [i \in DOMAIN od |-> IF od[i].name = n THEN [name |-> n, settings |-> m]
                                                 ELSE od[i]]
    ELSE Append(od, [name |-> n, settings |-> m])

\* the body of __init__'s loop for one source: skip an empty mapping, warn
\* when the name is already registered, store the pair
RegisterSource(od, source) ==
    LET n == YieldedName(source, od)
    IN  IF source.settings = <<>>
        THEN [settings |-> od, warns |-> <<>>]
        ELSE [settings |-> OrderedDictSet(od, n, source.settings),
              warns |-> IF n \in SettingsNames(od) THEN <<"duplicate">> ELSE <<>>]

\* the whole loop of __init__ over self.sources
RECURSIVE Construct(_, _)
Construct(od, srcs) ==
    IF srcs = <<>> THEN od
    ELSE Construct(RegisterSource(od, Head(srcs)).settings, Tail(srcs))

----------------------------------------------------------------------------
(* Settings.get *)

EmptyCache == [k \in {} |-> None]

\* a cache that stores nothing
NoCachePut(c, k, v) == c

\* a cache that stores every entry under the lower-cased key
CachePutLower(c, k, v) ==
    [x \in DOMAIN c \cup {Lower(k)} |-> IF x = Lower(k) THEN v ELSE c[x]]

CachePut(c, k, v) == [x \in DOMAIN c \cup {k} |-> IF x = k THEN v ELSE c[x]]

\* a lookup that ignores the per-call flag
EffectiveInstanceOnly(arg, inst) == inst

\* a per-call flag falls back to the instance's when omitted
Effective(arg, inst) == IF arg = "None" THEN inst ELSE arg = "True"

\* a lookup that goes by the key as given
NormalizeKeyVerbatim(key, cs) == key

NormalizeKey(key, cs) == IF cs THEN key ELSE Lower(key)

\* the keys of mapping m that match the (normalized) key, as entry indices
\* in iteration order
PossibleKeys(m, key, cs) ==
    {i \in DOMAIN m : IF cs THEN m[i][1] = key ELSE Lower(m[i][1]) = key}

\* the for loop of get over self._settings.items(): stop at the first
\* mapping with a match
ScanSettings(od, key, cs) ==
    LET hits == {i \in DOMAIN od : PossibleKeys(od[i].settings, key, cs) # {}}
    IN  IF hits = {}
        THEN [found |-> FALSE, value |-> None, warns |-> <<>>, source |-> 0]
        ELSE LET i == CHOOSE a \in hits : \A b \in hits : a <= b
                 pk == PossibleKeys(od[i].settings, key, cs)
                 first == CHOOSE a \in pk : \A b \in pk : a <= b
             IN  [found |-> TRUE,
                  value |-> od[i].settings[first][2],
                  warns |-> IF Cardinality(pk) > 1 THEN <<"ambiguous">> ELSE <<>>,
                  source |-> i]

\* int(s): digits parse, anything else is a ValueError
CastInt(val) ==
    IF val.t = "int" THEN [exc |-> "none", val |-> val]
    ELSE IF val.t = "str" /\ IsDigits(Strip(val.v))
         THEN [exc |-> "none", val |-> PyInt(Strip(val.v))]
         ELSE [exc |-> "ValueError", val |-> None]

\* getbool's _string_to_bool: the tuples a stripped, lower-cased string is
\* looked up in, as the code writes them
TrueStrings == {<<"t", "r", "u", "e">>, <<"t">>, <<"1">>}

FalseStrings ==
    {<<"f", "a", "l", "s", "e">>, <<"f">>, <<"0">>, <<"N", "o", "n", "e">>,
     <<"n", "u", "l", "l">>, <<>>}

\* bool(s) of a value that is not a string
Truthy(val) ==
    CASE val.t = "bool" -> val = PyTrue
      [] val.t = "int" -> \E i \in DOMAIN val.v : val.v[i] # "0"
      [] OTHER -> val.v # <<>>

StringToBool(val) ==
    IF val.t = "str"
    THEN IF Lower(Strip(val.v)) \in TrueStrings
         THEN [exc |-> "none", val |-> PyTrue]
         ELSE IF Lower(Strip(val.v)) \in FalseStrings
         THEN [exc |-> "none", val |-> PyFalse]
         ELSE [exc |-> "ValueError", val |-> None]
    ELSE [exc |-> "none", val |-> IF Truthy(val) THEN PyTrue ELSE PyFalse]

\* cast_func(value), cast_func one of None, int and _string_to_bool
ApplyCast(cast, val) ==
    CASE cast = "none" -> [exc |-> "none", val |-> val]
      [] cast = "int" -> CastInt(val)
      [] cast = "bool" -> StringToBool(val)

CastFuncs == {"none", "int"}

\* a cache that takes the transformed value
CachedCastValue(value, cast) == ApplyCast(cast, value).val

\* self._cache[key] = value comes before value = cast_func(value): the
\* cache takes the value as the mapping holds it
CachedValue(value, cast) == value

\* what a call reports: the value returned, the exception raised ("none" when
\* it returns), the warnings emitted, whether the cache answered (hit),
\* whether the mappings were iterated (scanned), whether the key was found,
\* and the cache it leaves
Outcome(ret, exc, warns, hit, scanned, found, cache) ==
    [ret |-> ret, exc |-> exc, warns |-> warns, hit |-> hit,
     scanned |-> scanned, found |-> found, cache |-> cache]

\* get(key, default=, cast_func=, case_sensitive=, raise_exception=, warn_missing=)
\* on the instance (od, cache, cs0, re0, wm0)
get(od, cache, cs0, re0, wm0, key, default, cast, cs_arg, re_arg, wm_arg) ==
    LET cs == Effective(cs_arg, cs0)
        re == Effective(re_arg, re0)
        wm == Effective(wm_arg, wm0)
        nkey == NormalizeKey(key, cs)
    IN  IF nkey \in DOMAIN cache
        THEN LET c == ApplyCast(cast, cache[nkey])
             IN  Outcome(c.val, c.exc, <<>>, TRUE, FALSE, TRUE, cache)
        ELSE LET s == ScanSettings(od, nkey, cs)
             IN  IF ~s.found
                 THEN IF re
                      THEN Outcome(None, "MissingSettingException", <<>>,
                                   FALSE, TRUE, FALSE, cache)
                      ELSE Outcome(default, "none",
                                   IF wm THEN <<"missing">> ELSE <<>>,
                                   FALSE, TRUE, FALSE, cache)
                 ELSE LET c == ApplyCast(cast, s.value)
                      IN  Outcome(c.val, c.exc, s.warns, FALSE, TRUE, TRUE,
                                  CachePut(cache, nkey, CachedValue(s.value, cast)))

----------------------------------------------------------------------------
(* The typed accessors *)

\* json.loads on the strings the model holds: an integer literal, or a
\* one-element list of an integer literal; anything else does not decode
JsonLoads(s) ==
    IF IsDigits(s)
    THEN [ok |-> TRUE, val |-> PyInt(s)]
    ELSE IF /\ Len(s) >= 3
            /\ s[1] = "[" /\ s[Len(s)] = "]"
            /\ IsDigits(Strip(SubSeq(s, 2, Len(s) - 1)))
         THEN [ok |-> TRUE,
               val |-> PyList(<<PyInt(Strip(SubSeq(s, 2, Len(s) - 1)))>>)]
         ELSE [ok |-> FALSE, val |-> None]

\* the decoding tail of getserialized: a list or None is returned as it
\* is, a string goes through json.loads, then yaml.load (a plain scalar loads
\* as itself)
Deserialize(val) ==
    IF val.t \in {"list", "none"}
    THEN [exc |-> "none", val |-> val]
    ELSE LET j == JsonLoads(val.v)
         IN  IF j.ok THEN [exc |-> "none", val |-> j.val]
                     ELSE [exc |-> "none", val |-> val]

\* getserialized(key, default=, case_sensitive=, raise_exception=, warn_missing=)
getserialized(od, cache, cs0, re0, wm0, key, default, cs_arg, re_arg, wm_arg) ==
    LET g == get(od, cache, cs0, re0, wm0, key, default, "none", cs_arg, re_arg, wm_arg)
    IN  IF g.exc # "none" THEN g
        ELSE LET d == Deserialize(g.ret)
             IN  [g EXCEPT !.ret = d.val, !.exc = d.exc]

\* [p.strip(' ') for p in value.split(',')]
RECURSIVE StripEach(_)
StripEach(parts) ==
    IF parts = <<>> THEN <<>>
    ELSE <<PyStr(Strip(Head(parts)))>> \o StripEach(Tail(parts))

\* getlist(key, default=, case_sensitive=, raise_exception=, warn_missing=)
\* with the delimiter ",": a bracketed string is handed to
\* self.getserialized(key), which is called with the key alone
getlist(od, cache, cs0, re0, wm0, key, default, cs_arg, re_arg, wm_arg) ==
    LET g == get(od, cache, cs0, re0, wm0, key, default, "none", cs_arg, re_arg, wm_arg)
    IN  IF g.exc # "none" \/ g.ret.t = "none" THEN g
        ELSE IF g.ret.t = "str"
        THEN LET value == Strip(g.ret.v)
             IN  IF value # <<>> /\ value[1] = "[" /\ value[Len(value)] = "]"
                 THEN LET s == getserialized(od, g.cache, cs0, re0, wm0, key, None,
                                             "None", "None", "None")
                      IN  [s EXCEPT !.warns = g.warns \o s.warns,
                                    !.hit = g.hit,
                                    !.scanned = g.scanned \/ s.scanned]
                 ELSE [g EXCEPT !.ret = PyList(StripEach(Split(value, ",")))]
        ELSE [g EXCEPT !.ret = PyList(g.ret.v)]

\* getint(key, **kwargs) is get(key, cast_func=int, **kwargs); getbool,
\* getfloat, geturi and getnjobs have the same shape with their own cast_func
getint(od, cache, cs0, re0, wm0, key, default, cs_arg, re_arg, wm_arg) ==
    get(od, cache, cs0, re0, wm0, key, default, "int", cs_arg, re_arg, wm_arg)

\* getbool(key, **kwargs) is get(key, cast_func=_string_to_bool, **kwargs)
getbool(od, cache, cs0, re0, wm0, key, default, cs_arg, re_arg, wm_arg) ==
    get(od, cache, cs0, re0, wm0, key, default, "bool", cs_arg, re_arg, wm_arg)

----------------------------------------------------------------------------
(* parse_n_jobs and getnjobs *)

PyFloat(s) == [t |-> "float", v |-> s]

DigitVal(c) ==
    CASE c = "0" -> 0 [] c = "1" -> 1 [] c = "2" -> 2 [] c = "3" -> 3
      [] c = "4" -> 4 [] c = "5" -> 5 [] c = "6" -> 6 [] c = "7" -> 7
      [] c = "8" -> 8 [] c = "9" -> 9

\* the number a string of digits writes (0 for the empty string)
RECURSIVE ParseNat(_)
ParseNat(s) ==
    IF s = <<>> THEN 0
    ELSE 10 * ParseNat(SubSeq(s, 1, Len(s) - 1)) + DigitVal(s[Len(s)])

\* the digits of a natural number
RECURSIVE FormatNat(_)
FormatNat(n) ==
    LET d == CHOOSE c \in Digits : DigitVal(c) = n % 10
    IN  IF n < 10 THEN <<d>> ELSE Append(FormatNat(n \div 10), d)

RECURSIVE Pow10(_)
Pow10(n) == IF n = 0 THEN 1 ELSE 10 * Pow10(n - 1)

\* a decimal numeral [-]digits[.digits] as the exact fraction num / den
Decimal(s) ==
    LET neg == s # <<>> /\ s[1] = "-"
        body == IF neg THEN Tail(s) ELSE s
        dots == {i \in DOMAIN body : body[i] = "."}
        dot == IF dots = {} THEN Len(body) + 1 ELSE CHOOSE i \in dots : TRUE
        whole == SubSeq(body, 1, dot - 1)
        frac == SubSeq(body, dot + 1, Len(body))
    IN  [neg |-> neg, num |-> ParseNat(whole \o frac), den |-> Pow10(Len(frac))]

\* int(x) of a number num / den: truncation toward zero
Trunc(q) == IF q.neg THEN 0 - (q.num \div q.den) ELSE q.num \div q.den

\* group 1 of the pattern, \d*(?:\.\d*)?, takes the longest prefix of
\* digits with at most one dot in it
CoefficientLen(s) ==
    LET ok(n) == /\ \A i \in 1..n : s[i] \in Digits \cup {"."}
                 /\ Cardinality({i \in 1..n : s[i] = "."}) <= 1
    IN  CHOOSE n \in 0..Len(s) : ok(n) /\ \A m \in 0..Len(s) : ok(m) => m <= n

\* group 2 of the pattern: \s*\*?\s*n
IsMarker(s) ==
    /\ s # <<>> /\ s[Len(s)] = "n"
    /\ \A i \in 1..(Len(s) - 1) : s[i] \in {" ", "*"}
    /\ Cardinality({i \in 1..(Len(s) - 1) : s[i] = "*"}) <= 1

\* re.match(r'(\d*(?:\.\d*)?)?(\s*\*?\s*n)?$', s): the two groups when the
\* whole string matches (group 2 is <<>> when it took no part)
MatchNJobs(s) ==
    LET n == CoefficientLen(s)
        rest == SubSeq(s, n + 1, Len(s))
    IN  [ok |-> rest = <<>> \/ IsMarker(rest),
         group1 |-> SubSeq(s, 1, n), group2 |-> rest]

\* a job count that is CPU-relative only when the marker is there
ScaledJobsMarkerOnly(q, marker, N) ==
    IF marker THEN Trunc([q EXCEPT !.num = q.num * N]) ELSE Trunc(q)

\* the job count of a matched string: k = float(group 1) or 1; k * N when
\* the marker is there or k < 1, int(k) otherwise.  The arithmetic here is
\* exact; the float product int(k * N) equals it for every N below 25
ScaledJobs(q, marker, N) ==
    IF marker \/ q.num < q.den
    THEN Trunc([q EXCEPT !.num = q.num * N])
    ELSE Trunc(q)

\* the tail of parse_n_jobs: a count <= 0 draws a warning and becomes 1
Clamp(n_jobs) ==
    IF n_jobs <= 0
    THEN [exc |-> "none", val |-> PyInt(<<"1">>), warns |-> <<"invalid">>]
    ELSE [exc |-> "none", val |-> PyInt(FormatNat(n_jobs)), warns |-> <<>>]

\* parse_n_jobs(s) on a machine where cpu_count() is N; a bool is an int
parse_n_jobs(val, N) ==
    CASE val.t = "bool" -> Clamp(IF val = PyTrue THEN 1 ELSE 0)
      [] val.t = "int" -> Clamp(Trunc(Decimal(val.v)))
      [] val.t = "float" -> Clamp(Trunc(Decimal(val.v)))
      [] val.t = "str" ->
             LET m == MatchNJobs(Strip(val.v))
             IN  IF ~m.ok \/ m.group1 = <<".">>
                 THEN [exc |-> "ValueError", val |-> None, warns |-> <<>>]
                 ELSE Clamp(ScaledJobs(IF m.group1 = <<>> THEN Decimal(<<"1">>)
                                                          ELSE Decimal(m.group1),
                                       m.group2 # <<>>, N))
      [] OTHER -> [exc |-> "TypeError", val |-> None, warns |-> <<>>]

\* getnjobs(key, **kwargs) is get(key, cast_func=parse_n_jobs, **kwargs): get
\* applies cast_func to the raw value exactly when the key is found, in the
\* cache or in a mapping, and returns the default as it is otherwise
getnjobs(od, cache, cs0, re0, wm0, key, default, cs_arg, re_arg, wm_arg, N) ==
    LET g == get(od, cache, cs0, re0, wm0, key, default, "none", cs_arg, re_arg, wm_arg)
    IN  IF ~g.found THEN g
        ELSE LET c == parse_n_jobs(g.ret, N)
             IN  [g EXCEPT !.ret = c.val, !.exc = c.exc,
                           !.warns = g.warns \o c.warns]

----------------------------------------------------------------------------
(* Key enumeration: __iter__ (a generator) and __len__ *)

UKNone == [none |-> TRUE, list |-> <<>>]
UKList(l) == [none |-> FALSE, list |-> l]

\* the keys of all mappings, mapping after mapping, each in iteration order
RECURSIVE FlatKeys(_)
FlatKeys(od) ==
    IF od = <<>> THEN <<>>
    ELSE [i \in DOMAIN Head(od).settings |-> Head(od).settings[i][1]]
         \o FlatKeys(Tail(od))

NewFrame == [mode |-> "new", p |-> 0, keys |-> {}, out |-> <<>>]

\* the generator run from where it is suspended to its next yield (or to its
\* end) in build mode: p is the entry it last looked at, keys its local set
BuildStep(od, cs, uk, f) ==
    LET flat == FlatKeys(od)
        fresh == {q \in (f.p + 1)..Len(flat) : NormalizeKey(flat[q], cs) \notin f.keys}
    IN  IF fresh = {}
        THEN [frame |-> [f EXCEPT !.mode = "done", !.p = Len(flat)],
              uk |-> uk, yielded |-> FALSE]
        ELSE LET q == CHOOSE a \in fresh : \A b \in fresh : a <= b
                 k == NormalizeKey(flat[q], cs)
             IN  [frame |-> [f EXCEPT !.mode = "build", !.p = q,
                                      !.keys = f.keys \cup {k},
                                      !.out = Append(f.out, k)],
                  uk |-> UKList(Append(uk.list, k)), yielded |-> TRUE]

\* the same in replay mode (yield from self._union_keys): p is the number of
\* items of the list already yielded
ReplayStep(uk, f) ==
    IF f.p < Len(uk.list)
    THEN [frame |-> [f EXCEPT !.mode = "replay", !.p = f.p + 1,
                              !.out = Append(f.out, uk.list[f.p + 1])],
          uk |-> uk, yielded |-> TRUE]
    ELSE [frame |-> [f EXCEPT !.mode = "done"], uk |-> uk, yielded |-> FALSE]

\* next(generator): a new generator first tests self._union_keys is None
GenNext(od, cs, uk, f) ==
    CASE f.mode = "new" ->
             IF uk.none THEN BuildStep(od, cs, UKList(<<>>), f)
                        ELSE ReplayStep(uk, f)
      [] f.mode = "build" -> BuildStep(od, cs, uk, f)
      [] f.mode = "replay" -> ReplayStep(uk, f)
      [] OTHER -> [frame |-> f, uk |-> uk, yielded |-> FALSE]

\* a generator run to its end, as list(settings) or a for loop does
RECURSIVE RunToEnd(_, _, _, _)
RunToEnd(od, cs, uk, f) ==
    LET r == GenNext(od, cs, uk, f)
    IN  IF r.yielded THEN RunToEnd(od, cs, r.uk, r.frame) ELSE r

\* __len__: build self._union_keys by a full iteration when it is None
LenCall(od, cs, uk) ==
    LET uk1 == IF uk.none THEN RunToEnd(od, cs, uk, NewFrame).uk ELSE uk
    IN  [uk |-> uk1, n |-> Len(uk1.list)]

----------------------------------------------------------------------------
(* The state machine *)

\* what `last` keeps of a call: its arguments and what it reported
Call(op, key, default, cast, cs_arg, re_arg, wm_arg, o) ==
    [op |-> op, key |-> key, default |-> default, cast |-> cast,
     cs_arg |-> cs_arg, re_arg |-> re_arg, wm_arg |-> wm_arg,
     ret |-> o.ret, exc |-> o.exc, warns |-> o.warns,
     hit |-> o.hit, scanned |-> o.scanned, found |-> o.found,
     keys |-> <<>>, n |-> 0]

Enumeration(op, keys, n) ==
    [op |-> op, key |-> <<>>, default |-> None, cast |-> "none",
     cs_arg |-> "None", re_arg |-> "None", wm_arg |-> "None",
     ret |-> None, exc |-> "none", warns |-> <<>>,
     hit |-> FALSE, scanned |-> FALSE, found |-> FALSE, keys |-> keys, n |-> n]

NoCall == Enumeration("none", <<>>, 0)

Booleans == {TRUE, FALSE}

Config == <<case_sensitive, raise_exception, warn_missing, sources,
            n_search_first, src_idx, _settings, given>>

\* the case_sensitive each cache entry was stored under: an entry already
\* there keeps its own; a new one is stored by the call's lookup of
\* NormalizeKey(key, cs), or else by getlist's inner self.getserialized(key),
\* which runs under the instance's case_sensitive
StoredUnder(old, new, key, cs) ==
    [x \in DOMAIN new |->
        IF x \in DOMAIN old THEN old[x]
        ELSE IF x = NormalizeKey(key, cs) THEN cs ELSE case_sensitive]

\* a call of the accessor whose outcome is o
Returns(op, key, default, cast, cs_arg, re_arg, wm_arg, o) ==
    /\ pc = "ready"
    /\ _cache' = o.cache
    /\ cache_cs' = StoredUnder(cache_cs, o.cache, key,
                               Effective(cs_arg, case_sensitive))
    /\ last' = Call(op, key, default, cast, cs_arg, re_arg, wm_arg, o)
    /\ pc' = "returned"
    /\ UNCHANGED <<Config, _union_keys, iters, returned_union>>

\* one pass of __init__'s loop: load the next source and register its pair
LoadSource ==
    /\ pc = "init"
    /\ src_idx < Len(sources)
    /\ LET r == RegisterSource(_settings, sources[src_idx + 1])
       IN  /\ _settings' = r.settings
           /\ last' = [NoCall EXCEPT !.op = "__init__", !.warns = r.warns]
    /\ src_idx' = src_idx + 1
    /\ pc' = IF src_idx + 1 = Len(sources) THEN "ready" ELSE "init"
    /\ UNCHANGED <<case_sensitive, raise_exception, warn_missing, sources,
                   n_search_first, _cache, cache_cs, _union_keys, iters,
                   given, returned_union>>

\* the caller takes the result of the call that has just returned
Return ==
    /\ pc = "returned"
    /\ pc' = "ready"
    /\ last' = NoCall
    /\ UNCHANGED <<Config, _cache, cache_cs, _union_keys, iters,
                   returned_union>>

Get(key, default, cast, cs_arg, re_arg, wm_arg) ==
    Returns("get", key, default, cast, cs_arg, re_arg, wm_arg,
            get(_settings, _cache, case_sensitive, raise_exception, warn_missing,
                key, default, cast, cs_arg, re_arg, wm_arg))

\* __getitem__: self.get(key)
GetItem(key) ==
    Returns("__getitem__", key, None, "none", "None", "None", "None",
            get(_settings, _cache, case_sensitive, raise_exception, warn_missing,
                key, None, "none", "None", "None", "None"))

GetInt(key, default, cs_arg, re_arg, wm_arg) ==
    Returns("getint", key, default, "int", cs_arg, re_arg, wm_arg,
            getint(_settings, _cache, case_sensitive, raise_exception, warn_missing,
                   key, default, cs_arg, re_arg, wm_arg))

GetSerialized(key, default, cs_arg, re_arg, wm_arg) ==
    Returns("getserialized", key, default, "none", cs_arg, re_arg, wm_arg,
            getserialized(_settings, _cache, case_sensitive, raise_exception,
                          warn_missing, key, default, cs_arg, re_arg, wm_arg))

GetList(key, default, cs_arg, re_arg, wm_arg) ==
    Returns("getlist", key, default, "none", cs_arg, re_arg, wm_arg,
            getlist(_settings, _cache, case_sensitive, raise_exception,
                    warn_missing, key, default, cs_arg, re_arg, wm_arg))

GetBool(key, default, cs_arg, re_arg, wm_arg) ==
    Returns("getbool", key, default, "bool", cs_arg, re_arg, wm_arg,
            getbool(_settings, _cache, case_sensitive, raise_exception,
                    warn_missing, key, default, cs_arg, re_arg, wm_arg))

\* getnjobs on a machine where cpu_count() is N; last.n keeps N
GetNJobs(key, default, cs_arg, re_arg, wm_arg, N) ==
    /\ pc = "ready"
    /\ LET o == getnjobs(_settings, _cache, case_sensitive, raise_exception,
                         warn_missing, key, default, cs_arg, re_arg, wm_arg, N)
       IN  /\ _cache' = o.cache
           /\ cache_cs' = StoredUnder(cache_cs, o.cache, key,
                                      Effective(cs_arg, case_sensitive))
           /\ last' = [Call("getnjobs", key, default, "parse_n_jobs",
                            cs_arg, re_arg, wm_arg, o) EXCEPT !.n = N]
    /\ pc' = "returned"
    /\ UNCHANGED <<Config, _union_keys, iters, returned_union>>

\* list(settings): a generator made and run to its end in one go
IterAll ==
    /\ pc = "ready"
    /\ LET r == RunToEnd(_settings, case_sensitive, _union_keys, NewFrame)
       IN  /\ _union_keys' = r.uk
           /\ returned_union' = r.uk
           /\ last' = Enumeration("list", r.frame.out, 0)
    /\ pc' = "returned"
    /\ UNCHANGED <<Config, _cache, cache_cs, iters>>

LenOp ==
    /\ pc = "ready"
    /\ LET r == LenCall(_settings, case_sensitive, _union_keys)
       IN  /\ _union_keys' = r.uk
           /\ returned_union' = r.uk
           /\ last' = Enumeration("len", <<>>, r.n)
    /\ pc' = "returned"
    /\ UNCHANGED <<Config, _cache, cache_cs, iters>>

\* iter(settings): a generator object; its body has not run yet
IterNew ==
    /\ pc = "ready"
    /\ Len(iters) < MaxIters
    /\ iters' = Append(iters, NewFrame)
    /\ UNCHANGED <<Config, pc, _cache, cache_cs, _union_keys, last,
                   returned_union>>

\* next(g) on a generator that has not finished
IterNext(g) ==
    /\ pc = "ready"
    /\ g \in DOMAIN iters
    /\ iters[g].mode # "done"
    /\ LET r == GenNext(_settings, case_sensitive, _union_keys, iters[g])
       IN  /\ iters' = [iters EXCEPT ![g] = r.frame]
           /\ _union_keys' = r.uk
           /\ returned_union' = IF r.yielded THEN returned_union ELSE r.uk
    /\ UNCHANGED <<Config, pc, _cache, cache_cs, last>>

\* a generator is dropped, finished or not
IterDrop(g) ==
    /\ pc = "ready"
    /\ g \in DOMAIN iters
    /\ iters' = [i \in 1..(Len(iters) - 1) |-> IF i < g THEN iters[i] ELSE iters[i + 1]]
    /\ UNCHANGED <<Config, pc, _cache, cache_cs, _union_keys, last,
                   returned_union>>

\* the state on entry to __init__'s loop for the given flags and sources
Entered(flags, srcs, nfirst) ==
    /\ case_sensitive = flags[1]
    /\ raise_exception = flags[2]
    /\ warn_missing = flags[3]
    /\ sources = srcs
    /\ n_search_first = nfirst
    /\ pc = IF srcs = <<>> THEN "ready" ELSE "init"
    /\ src_idx = 0
    /\ _settings = <<>>
    /\ _cache = EmptyCache
    /\ cache_cs = EmptyCache
    /\ _union_keys = UKNone
    /\ returned_union = UKNone
    /\ iters = <<>>
    /\ given = [flags |-> flags, sources |-> srcs]
    /\ last = NoCall

\* the state __init__ leaves for the given flags and sources
Constructed(flags, srcs, nfirst) ==
    /\ case_sensitive = flags[1]
    /\ raise_exception = flags[2]
    /\ warn_missing = flags[3]
    /\ sources = srcs
    /\ n_search_first = nfirst
    /\ pc = "ready"
    /\ src_idx = Len(srcs)
    /\ _settings = Construct(<<>>, srcs)
    /\ _cache = EmptyCache
    /\ cache_cs = EmptyCache
    /\ _union_keys = UKNone
    /\ returned_union = UKNone
    /\ iters = <<>>
    /\ given = [flags |-> flags, sources |-> srcs]
    /\ last = NoCall

SourceLists(pool) == UNION {[1..n -> pool] : n \in 0..MaxSources}

DictSources(dicts) == {DictSource(m) : m \in dicts}

----------------------------------------------------------------------------
(* Spec: an instance Settings(d1, ..., dn, search_first=[]) of dict        *)
(* sources, with raise_exception and warn_missing left at their defaults,  *)
(* read through get, getlist, list() and len().  The per-call              *)
(* raise_exception and warn_missing never change the state a call leaves;  *)
(* the calls made here omit them, and SpecPolicy varies them.              *)

Init ==
    \E cs \in Booleans,
       srcs \in SourceLists(DictSources(Dicts(SrcKeys, RawValues, MaxEntries) \ {<<>>})) :
        Constructed(<<cs, FALSE, TRUE>>, srcs, 0)

Next ==
    \/ \E key \in LookupKeys, default \in Defaults, cast \in CastFuncs,
          cs_arg \in FlagArgs :
           Get(key, default, cast, cs_arg, "None", "None")
    \/ \E key \in LookupKeys : GetItem(key)
    \/ \E key \in LookupKeys, cs_arg \in FlagArgs :
           GetList(key, None, cs_arg, "None", "None")
    \/ IterAll
    \/ LenOp
    \/ Return

Spec == Init /\ [][Next]_vars

----------------------------------------------------------------------------
(* SpecPolicy: the missing-key policy.  The instance's three flags and the *)
(* three per-call flags all vary; the sources hold one value, which plays  *)
(* no part in what a call does with a key it does not find.               *)

InitPolicy ==
    \E cs \in Booleans, re \in Booleans, wm \in Booleans,
       srcs \in SourceLists(DictSources(Dicts(SrcKeys, {PyStr(<<"1">>)}, MaxEntries))) :
        Constructed(<<cs, re, wm>>, srcs, 0)

NextPolicy ==
    \/ \E key \in LookupKeys, default \in Defaults,
          cs_arg \in FlagArgs, re_arg \in FlagArgs, wm_arg \in FlagArgs :
           Get(key, default, "none", cs_arg, re_arg, wm_arg)
    \/ \E key \in LookupKeys : GetItem(key)
    \/ Return

SpecPolicy == InitPolicy /\ [][NextPolicy]_vars

----------------------------------------------------------------------------
(* SpecInit: the constructor run source by source over search_first +      *)
(* sources, of sources that bring their own name and of dict sources, then *)
(* get                                                                     *)

InitSources ==
    DictSources(Dicts(SrcKeys, RawValues, 1))
    \cup {NamedSource(n, m) : n \in SourceNames, m \in Dicts(SrcKeys, RawValues, 1)}

InitInit ==
    \E cs \in Booleans, srcs \in SourceLists(InitSources) :
        \E nfirst \in 0..Len(srcs) : Entered(<<cs, FALSE, TRUE>>, srcs, nfirst)

NextInit ==
    \/ LoadSource
    \/ \E key \in LookupKeys, cs_arg \in FlagArgs :
           Get(key, None, "none", cs_arg, "None", "None")
    \/ Return

SpecInit == InitInit /\ [][NextInit]_vars

----------------------------------------------------------------------------
(* SpecAccessors: the typed accessors with every per-call flag, on an      *)
(* instance of one dict source                                             *)

InitAccessors ==
    \E cs \in Booleans, re \in Booleans, wm \in Booleans,
       m \in Dicts(SrcKeys, RawValues, 1) :
        Constructed(<<cs, re, wm>>, <<DictSource(m)>>, 0)

NextAccessors ==
    \/ \E key \in LookupKeys, default \in Defaults,
          cs_arg \in FlagArgs, re_arg \in FlagArgs, wm_arg \in FlagArgs :
           \/ Get(key, default, "none", cs_arg, re_arg, wm_arg)
           \/ GetInt(key, default, cs_arg, re_arg, wm_arg)
           \/ GetSerialized(key, default, cs_arg, re_arg, wm_arg)
           \/ GetList(key, default, cs_arg, re_arg, wm_arg)
    \/ Return

SpecAccessors == InitAccessors /\ [][NextAccessors]_vars

----------------------------------------------------------------------------
(* SpecIter: key enumeration generator by generator: generators are made,  *)
(* advanced one yield at a time, interleaved and dropped part-way          *)

InitIter ==
    \E cs \in Booleans,
       srcs \in SourceLists(DictSources(Dicts(SrcKeys, RawValues, MaxEntries))) :
        Constructed(<<cs, FALSE, TRUE>>, srcs, 0)

NextIter ==
    \/ IterNew
    \/ \E g \in 1..MaxIters : IterNext(g)
    \/ \E g \in 1..MaxIters : IterDrop(g)
    \/ IterAll
    \/ LenOp
    \/ \E key \in LookupKeys : GetItem(key)
    \/ Return

SpecIter == InitIter /\ [][NextIter]_vars

----------------------------------------------------------------------------
(* SpecBool: getbool over raw values that are native booleans and strings  *)
(* in several casings, padded or not                                       *)

BoolValues ==
    {PyTrue, PyFalse,
     PyStr(<<"t", "r", "u", "e">>), PyStr(<<"T", "r", "u", "e">>),
     PyStr(<<"T">>), PyStr(<<"1">>),
     PyStr(<<"f", "a", "l", "s", "e">>),
     PyStr(<<" ", "F", "a", "l", "s", "e", " ">>),
     PyStr(<<"F">>), PyStr(<<"0">>),
     PyStr(<<"n", "o", "n", "e">>), PyStr(<<"N", "o", "n", "e">>),
     PyStr(<<"N", "O", "N", "E">>),
     PyStr(<<"n", "u", "l", "l">>), PyStr(<<"N", "u", "l", "l">>),
     PyStr(<<>>), PyStr(<<" ">>),
     PyStr(<<"y", "e", "s">>), PyStr(<<"2">>)}

InitBool ==
    \E cs \in Booleans, re \in Booleans, wm \in Booleans,
       m \in Dicts(SrcKeys, BoolValues, 1) \ {<<>>} :
        Constructed(<<cs, re, wm>>, <<DictSource(m)>>, 0)

NextBool ==
    \/ \E key \in LookupKeys, default \in Defaults,
          cs_arg \in FlagArgs, re_arg \in FlagArgs, wm_arg \in FlagArgs :
           GetBool(key, default, cs_arg, re_arg, wm_arg)
    \/ Return

SpecBool == InitBool /\ [][NextBool]_vars

----------------------------------------------------------------------------
(* SpecNJobs: getnjobs over raw values that are strings of the pattern's    *)
(* alphabet, integers, floats, booleans and None, on machines of several    *)
(* CPU counts                                                               *)

MaxNJobsLen == 3

NJobsChars == {"0", "2", "4", "5", ".", "*", "n", " "}

NJobsStrings ==
    UNION {[1..l -> NJobsChars] : l \in 0..MaxNJobsLen}
    \cup {<<"2", " ", "*", " ", "n">>, <<"0", ".", "5", "*", "n">>,
          <<"0", ".", "5", "n">>, <<"1", ".", "5", " ", "n">>,
          <<"2", "*", "*", "n">>, <<"n", "2">>}

NJobsValues ==
    {PyStr(s) : s \in NJobsStrings}
    \cup {PyInt(<<"4">>), PyInt(<<"0">>), PyInt(<<"-", "3">>), PyInt(<<"1", "2">>)}
    \cup {PyFloat(<<"2", ".", "7">>), PyFloat(<<"0", ".", "9">>),
          PyFloat(<<"-", "0", ".", "5">>), PyFloat(<<"-", "2", ".", "7">>)}
    \cup {PyTrue, PyFalse, None}

CpuCounts == {1, 2, 3, 8}

InitNJobs ==
    \E cs \in Booleans, v \in NJobsValues :
        Constructed(<<cs, FALSE, TRUE>>, <<DictSource(<< <<<<"k">>, v>> >>)>>, 0)

NextNJobs ==
    \/ \E key \in LookupKeys, default \in Defaults, N \in CpuCounts :
           GetNJobs(key, default, "None", "None", "None", N)
    \/ Return

SpecNJobs == InitNJobs /\ [][NextNJobs]_vars

----------------------------------------------------------------------------
(* What the claims speak of *)

\* the effective flags of the call `last` holds
LastCS == IF last.cs_arg = "None" THEN case_sensitive ELSE last.cs_arg = "True"

\* the key a lookup of `key` goes by: lower-cased unless case-sensitive
LookupKey(key, cs) == IF cs THEN key ELSE Lower(key)

\* whether mapping m has a key matching the lookup key, and the value of the
\* first such key in m's iteration order
Matching(m, lkey, cs) ==
    {i \in DOMAIN m : IF cs THEN m[i][1] = lkey ELSE Lower(m[i][1]) = lkey}

FirstMatchIn(m, lkey, cs) ==
    m[CHOOSE i \in Matching(m, lkey, cs) :
          \A j \in Matching(m, lkey, cs) : i <= j][2]

\* the mappings of a list of named mappings, highest priority first, that
\* match the lookup key
MatchingMappings(od, lkey, cs) ==
    {i \in DOMAIN od : Matching(od[i].settings, lkey, cs) # {}}

\* the name source i of the list is registered under
NameOf(srcs, i) == YieldedName(srcs[i], Construct(<<>>, SubSeq(srcs, 1, i - 1)))

\* the sources that yield a mapping to register (an empty one is skipped), in
\* priority order: search_first, then the declared sources
Yielding(srcs) == {i \in DOMAIN srcs : srcs[i].settings # <<>>}

\* the first source registered under the name of source i
FirstUnder(srcs, i) ==
    CHOOSE a \in Yielding(srcs) :
        /\ NameOf(srcs, a) = NameOf(srcs, i)
        /\ \A b \in Yielding(srcs) : NameOf(srcs, b) = NameOf(srcs, i) => a <= b

LastRE == IF last.re_arg = "None" THEN raise_exception ELSE last.re_arg = "True"
LastWM == IF last.wm_arg = "None" THEN warn_missing ELSE last.wm_arg = "True"

\* a step in which a call of get returns
GetReturns == pc = "ready" /\ pc' = "returned" /\ last'.op = "get"

----------------------------------------------------------------------------
(* C1 *)

\* C1: a successful get of a key not yet cached returns the value of the
\* earliest-registered mapping with a matching key (search_first mappings
\* come before those of the declared sources), whatever later mappings hold
C1_FirstMatchWins ==
    (pc = "returned" /\ last.op = "get" /\ ~last.hit /\ last.found)
    => LET lkey == LookupKey(last.key, LastCS)
           srcs == {i \in Yielding(sources) :
                        Matching(sources[i].settings, lkey, LastCS) # {}}
           first == CHOOSE i \in srcs : \A j \in srcs : i <= j
       IN  /\ srcs # {}
           /\ last.ret = FirstMatchIn(sources[first].settings, lkey, LastCS)

----------------------------------------------------------------------------
(* C3 *)

\* C3: after construction the registered names are unique, a pair whose name
\* is already registered draws a warning and is not stored: each name holds
\* the mapping of its first registration, at that registration's position
C3_FirstRegistrationKept ==
    /\ \A p, q \in DOMAIN _settings :
           _settings[p].name = _settings[q].name => p = q
    /\ (last.op = "__init__" /\ sources[src_idx].settings # <<>>)
       => (last.warns = <<"duplicate">>
           <=> FirstUnder(sources, src_idx) < src_idx)
    /\ pc # "init"
       => /\ \A i \in Yielding(sources) :
                \E p \in DOMAIN _settings :
                    /\ _settings[p].name = NameOf(sources, i)
                    /\ _settings[p].settings
                         = sources[FirstUnder(sources, i)].settings
          /\ \A p, q \in DOMAIN _settings :
                p < q => \E i, j \in Yielding(sources) :
                             /\ NameOf(sources, i) = _settings[p].name
                             /\ NameOf(sources, j) = _settings[q].name
                             /\ FirstUnder(sources, i) < FirstUnder(sources, j)

----------------------------------------------------------------------------
(* C2 *)

\* what the missing-key policy asks of the get that has just returned, under
\* its effective flags (the per-call flag when given, else the instance's)
MissingPolicy ==
    /\ LastRE'
       => last'.exc = "MissingSettingException" /\ last'.warns = <<>>
    /\ (~LastRE' /\ LastWM')
       => last'.exc = "none" /\ last'.ret = last'.default
          /\ last'.warns = <<"missing">>
    /\ (~LastRE' /\ ~LastWM')
       => last'.exc = "none" /\ last'.ret = last'.default /\ last'.warns = <<>>
    /\ _cache' = _cache

\* C2 as stated: whenever no registered mapping matches the key, get follows
\* the missing-key policy and leaves the cache unchanged
C2_MissingPolicyStated ==
    [][(GetReturns
        /\ MatchingMappings(_settings, LookupKey(last'.key, LastCS'), LastCS') = {})
       => MissingPolicy]_vars

\* C2 amended: whenever no registered mapping matches the key and the cache
\* has no entry for the normalized key, get follows the missing-key policy
\* and leaves the cache unchanged
C2_MissingPolicy ==
    [][(GetReturns
        /\ MatchingMappings(_settings, LookupKey(last'.key, LastCS'), LastCS') = {}
        /\ LookupKey(last'.key, LastCS') \notin DOMAIN _cache)
       => MissingPolicy]_vars

\* a get with raise_exception=False given per call, on an instance that
\* raises by default, has returned its default for a key no mapping holds
\* and warned once
C2_Witness ==
    /\ pc = "returned" /\ last.op = "get"
    /\ raise_exception /\ last.re_arg = "False" /\ LastWM
    /\ MatchingMappings(_settings, LookupKey(last.key, LastCS), LastCS) = {}
    /\ ~last.hit
    /\ last.default # None /\ last.ret = last.default
    /\ last.warns = <<"missing">>

----------------------------------------------------------------------------
(* C4 *)

\* the per-call arguments of get
GetArgs ==
    [key : LookupKeys, default : Defaults, cast : CastFuncs,
     cs : FlagArgs, re : FlagArgs, wm : FlagArgs]

\* the call get(a.key, default=a.default, cast_func=a.cast, ...) made on this
\* instance when its cache is `cache`
GetFrom(cache, a) ==
    get(_settings, cache, case_sensitive, raise_exception, warn_missing,
        a.key, a.default, a.cast, a.cs, a.re, a.wm)

ArgCS(a) == IF a.cs = "None" THEN case_sensitive ELSE a.cs = "True"

\* C4 as stated: of two consecutive identical get calls the second returns
\* what the first did and does not iterate the registered mappings
C4_IdempotentStated ==
    pc = "ready"
    => \A a \in GetArgs :
           LET first == GetFrom(_cache, a)
               second == GetFrom(first.cache, a)
           IN  /\ second.ret = first.ret /\ second.exc = first.exc
               /\ ~second.scanned

\* C4 amended: of two consecutive identical get calls the second returns
\* what the first did; when the first found the key (in the cache or in a
\* mapping) the second is answered from the cache without iterating the
\* registered mappings; when the first did not find it nothing is cached and
\* the second iterates them again
C4_Idempotent ==
    pc = "ready"
    => \A a \in GetArgs :
           LET first == GetFrom(_cache, a)
               second == GetFrom(first.cache, a)
           IN  /\ second.ret = first.ret /\ second.exc = first.exc
               /\ first.found => (second.hit /\ ~second.scanned)
               /\ ~first.found => (second.scanned /\ second.cache = _cache)

\* a get has been answered from the cache, which an earlier get of the same
\* key under the same case-sensitivity filled
C4_Witness ==
    /\ pc = "returned" /\ last.op = "get" /\ last.hit /\ ~last.scanned
    /\ cache_cs[LookupKey(last.key, LastCS)] = LastCS

----------------------------------------------------------------------------
(* C5 *)

\* the same call on a fresh instance, whose named mappings are od and whose
\* cache is empty
GetFresh(od, a) ==
    get(od, EmptyCache, case_sensitive, raise_exception, warn_missing,
        a.key, a.default, a.cast, a.cs, a.re, a.wm)

\* sources, the flags and the named mappings are as __init__ left them
Unchanged ==
    /\ sources = given.sources
    /\ <<case_sensitive, raise_exception, warn_missing>> = given.flags
    /\ _settings = Construct(<<>>, given.sources)

\* C5 as stated: reads change nothing but the cache and the key union, and
\* every get returns what it would on a fresh instance of the same sources
C5_ReadsInvisibleStated ==
    /\ Unchanged
    /\ pc = "ready"
       => LET fresh == Construct(<<>>, sources)
          IN  \A a \in GetArgs :
                  /\ GetFrom(_cache, a).ret = GetFresh(fresh, a).ret
                  /\ GetFrom(_cache, a).exc = GetFresh(fresh, a).exc

\* C5 amended: reads change nothing but the cache and the key union, and a
\* get returns what it would on a fresh instance of the same sources provided
\* the cache entry for its normalized key, if there is one, was stored by a
\* lookup with the same effective case_sensitive
C5_ReadsInvisible ==
    /\ Unchanged
    /\ pc = "ready"
       => LET fresh == Construct(<<>>, sources)
          IN  \A a \in GetArgs :
                  LET lkey == LookupKey(a.key, ArgCS(a))
                  IN  (lkey \in DOMAIN _cache => cache_cs[lkey] = ArgCS(a))
                      => /\ GetFrom(_cache, a).ret = GetFresh(fresh, a).ret
                         /\ GetFrom(_cache, a).exc = GetFresh(fresh, a).exc

\* after gets that filled the cache and an enumeration that built the key
\* union, a get has been answered from the cache under the case-sensitivity
\* that stored the entry
C5_Witness ==
    /\ pc = "returned" /\ last.op = "get" /\ last.hit
    /\ cache_cs[LookupKey(last.key, LastCS)] = LastCS
    /\ ~_union_keys.none
    /\ Cardinality(DOMAIN _cache) >= 2

----------------------------------------------------------------------------
(* C6 *)

\* the raw value a lookup of lkey finds: that of the first matching key of
\* the highest-priority mapping with a match
FoundValue(od, lkey, cs) ==
    LET hits == MatchingMappings(od, lkey, cs)
    IN  FirstMatchIn(od[CHOOSE i \in hits : \A j \in hits : i <= j].settings,
                     lkey, cs)

\* C6: the cache is keyed by the normalized key, and once it holds an entry
\* every get whose normalized key equals it returns the entry's raw value
\* without iterating the mappings, whichever case-sensitivity stored it
C6_CacheShared ==
    /\ \A k \in DOMAIN _cache :
           /\ ~cache_cs[k] => k = Lower(k)
           /\ MatchingMappings(_settings, k, cache_cs[k]) # {}
           /\ _cache[k] = FoundValue(_settings, k, cache_cs[k])
    /\ pc = "ready"
       => \A a \in GetArgs :
              LET lkey == LookupKey(a.key, ArgCS(a))
                  o == GetFrom(_cache, a)
              IN  (lkey \in DOMAIN _cache /\ a.cast = "none")
                  => /\ o.ret = _cache[lkey] /\ o.exc = "none"
                     /\ ~o.scanned /\ o.warns = <<>>
                     /\ o.cache = _cache

\* a case-sensitive get has been answered from an entry a case-insensitive
\* lookup stored, with a value no case-sensitive lookup of that key finds
C6_Witness ==
    /\ pc = "returned" /\ last.op = "get" /\ last.hit /\ last.cast = "none"
    /\ LastCS /\ ~cache_cs[last.key]
    /\ last.ret = _cache[last.key]
    /\ \/ MatchingMappings(_settings, last.key, TRUE) = {}
       \/ FoundValue(_settings, last.key, TRUE) # last.ret

----------------------------------------------------------------------------
(* C10 *)

\* C10: every cache entry is the raw value its first successful lookup
\* found; it is stored before the transformation runs, so it is there even
\* when the transformation fails; no get overwrites an entry; and after
\* get(key, cast_func=f) a get(key, cast_func=g) returns g(raw)
C10_RawCached ==
    /\ \A k \in DOMAIN _cache :
           /\ _cache[k] \in RawValues
           /\ MatchingMappings(_settings, k, cache_cs[k]) # {}
           /\ _cache[k] = FoundValue(_settings, k, cache_cs[k])
    /\ (pc = "returned" /\ last.op = "get" /\ last.found)
       => LookupKey(last.key, LastCS) \in DOMAIN _cache
    /\ pc = "ready"
       => \A a \in GetArgs :
              LET lkey == LookupKey(a.key, ArgCS(a))
                  first == GetFrom(_cache, a)
              IN  /\ \A k \in DOMAIN _cache :
                         k \in DOMAIN first.cache /\ first.cache[k] = _cache[k]
                  /\ first.found
                     => /\ lkey \in DOMAIN first.cache
                        /\ \A g \in CastFuncs :
                               LET second == GetFrom(first.cache, [a EXCEPT !.cast = g])
                                   raw == first.cache[lkey]
                               IN  /\ second.ret = ApplyCast(g, raw).val
                                   /\ second.exc = ApplyCast(g, raw).exc
                                   /\ second.cache = first.cache

\* get(key, cast_func=int) has raised ValueError on a value it found in a
\* mapping, and the raw value is in the cache
C10_Witness ==
    /\ pc = "returned" /\ last.op = "get" /\ last.cast = "int"
    /\ last.exc = "ValueError" /\ ~last.hit /\ last.found
    /\ LookupKey(last.key, LastCS) \in DOMAIN _cache
    /\ _cache[LookupKey(last.key, LastCS)] = PyStr(<<"[", "1", "]">>)

----------------------------------------------------------------------------
(* C7 *)

TypedAccessors == {"getint", "getserialized", "getlist"}

AccessorReturns ==
    pc = "ready" /\ pc' = "returned" /\ last'.op \in TypedAccessors

\* the list getlist makes of a raw value: a bracketed string is parsed as
\* structured data, any other string is split on "," and its pieces stripped
ListCoercion(raw) ==
    IF raw.t = "str"
    THEN LET value == Strip(raw.v)
         IN  IF value # <<>> /\ value[1] = "[" /\ value[Len(value)] = "]"
             THEN Deserialize(raw)
             ELSE [exc |-> "none", val |-> PyList(StripEach(Split(value, ",")))]
    ELSE [exc |-> "none", val |-> raw]

\* each accessor's coercion of a raw value
Coercion(op, raw) ==
    CASE op = "getint" -> CastInt(raw)
      [] op = "getserialized" -> Deserialize(raw)
      [] op = "getlist" -> ListCoercion(raw)

\* C7: a typed accessor resolves the key as get with the same arguments
\* does: it returns the coercion of the raw value get returns when the key
\* is found, and the default uncoerced, the warning or the
\* MissingSettingException that get gives when the key is absent
C7_AccessorsAreGet ==
    [][AccessorReturns
       => LET g == get(_settings, _cache, case_sensitive, raise_exception,
                       warn_missing, last'.key, last'.default, "none",
                       last'.cs_arg, last'.re_arg, last'.wm_arg)
          IN  IF g.found
              THEN /\ last'.ret = Coercion(last'.op, g.ret).val
                   /\ last'.exc = Coercion(last'.op, g.ret).exc
              ELSE /\ last'.ret = g.ret
                   /\ last'.exc = g.exc
                   /\ last'.warns = g.warns]_vars

----------------------------------------------------------------------------
(* C8 *)

UpperChar(c) ==
    CASE c = "k" -> "K"
      [] c = "j" -> "J"
      [] c = "x" -> "X"
      [] OTHER -> c

Upper(s) == [i \in DOMAIN s |-> UpperChar(s[i])]

Casings(key) == {key, Lower(key), Upper(key)}

\* the accessor op called on this instance when its cache is `cache`
AccessorFrom(op, cache, key, default, cs_arg, re_arg, wm_arg) ==
    CASE op = "get" ->
             get(_settings, cache, case_sensitive, raise_exception, warn_missing,
                 key, default, "none", cs_arg, re_arg, wm_arg)
      [] op = "getint" ->
             getint(_settings, cache, case_sensitive, raise_exception,
                    warn_missing, key, default, cs_arg, re_arg, wm_arg)
      [] op = "getserialized" ->
             getserialized(_settings, cache, case_sensitive, raise_exception,
                           warn_missing, key, default, cs_arg, re_arg, wm_arg)
      [] op = "getlist" ->
             getlist(_settings, cache, case_sensitive, raise_exception,
                     warn_missing, key, default, cs_arg, re_arg, wm_arg)

\* C8: a case-insensitive call of get or of a typed accessor, for a key
\* exactly one source defines, returns the same for every casing of the
\* key, whether the other casing is asked instead of or after this one
C8_CasingInvariant ==
    [][(/\ pc = "ready" /\ pc' = "returned"
        /\ last'.op \in {"get"} \cup TypedAccessors
        /\ ~LastCS'
        /\ Cardinality(MatchingMappings(_settings, Lower(last'.key), FALSE)) = 1)
       => \A k2 \in Casings(last'.key) :
              LET instead == AccessorFrom(last'.op, _cache, k2, last'.default,
                                          last'.cs_arg, last'.re_arg, last'.wm_arg)
                  after == AccessorFrom(last'.op, _cache', k2, last'.default,
                                        last'.cs_arg, last'.re_arg, last'.wm_arg)
              IN  /\ instead.ret = last'.ret /\ instead.exc = last'.exc
                  /\ after.ret = last'.ret /\ after.exc = last'.exc]_vars

----------------------------------------------------------------------------
(* C9 *)

\* the distinct items of seq in first-seen order
RECURSIVE FirstSeen(_, _)
FirstSeen(seq, seen) ==
    IF seq = <<>> THEN <<>>
    ELSE IF Head(seq) \in seen THEN FirstSeen(Tail(seq), seen)
    ELSE <<Head(seq)>> \o FirstSeen(Tail(seq), seen \cup {Head(seq)})

\* the union of the keys of the registered mappings, scanned in priority
\* order and each in its own order, lower-cased on a case-insensitive instance
UnionOfKeys ==
    LET flat == FlatKeys(_settings)
    IN  FirstSeen([i \in DOMAIN flat |-> LookupKey(flat[i], case_sensitive)], {})

\* C9: a complete iteration yields the union of the keys of the registered
\* mappings, each once, in first-seen order, and get of each yielded key
\* finds the value of the highest-priority mapping defining it
C9_TrueUnion ==
    (pc = "returned" /\ last.op = "list")
    => /\ last.keys = UnionOfKeys
       /\ \A i \in DOMAIN last.keys :
              LET o == get(_settings, _cache, case_sensitive, raise_exception,
                           warn_missing, last.keys[i], None, "none",
                           "None", "None", "None")
              IN  /\ o.found /\ o.exc = "none"
                  /\ o.ret = FoundValue(_settings, last.keys[i], case_sensitive)

----------------------------------------------------------------------------
(* C11 *)

\* the words the coercion table gives for true and for false
TableTrue == {<<"t", "r", "u", "e">>, <<"t">>, <<"1">>}

TableFalse ==
    {<<"f", "a", "l", "s", "e">>, <<"f">>, <<"0">>, <<"n", "o", "n", "e">>,
     <<"n", "u", "l", "l">>, <<>>}

\* C11: getbool of a key that is found returns a native boolean unchanged;
\* for a string, trimmed and lower-cased, it returns true for "true", "t",
\* "1", false for "false", "f", "0", "none", "null", "", and raises
\* ValueError for any other string, whatever the missing-key flags are
C11_BoolTable ==
    (pc = "returned" /\ last.op = "getbool" /\ last.found)
    => LET raw == _cache[LookupKey(last.key, LastCS)]
           word == Lower(Strip(raw.v))
       IN  CASE raw.t = "bool" -> last.exc = "none" /\ last.ret = raw
             [] raw.t = "str" /\ word \in TableTrue ->
                    last.exc = "none" /\ last.ret = PyTrue
             [] raw.t = "str" /\ word \in TableFalse ->
                    last.exc = "none" /\ last.ret = PyFalse
             [] OTHER -> last.exc = "ValueError"

----------------------------------------------------------------------------
(* C12 *)

\* the grammar: an optional decimal coefficient, then an optional marker
IsCoefficient(c) ==
    \/ c = <<>>
    \/ /\ \A i \in DOMAIN c : c[i] \in Digits \cup {"."}
       /\ Cardinality({i \in DOMAIN c : c[i] = "."}) <= 1
       /\ \E i \in DOMAIN c : c[i] \in Digits

Splits(text) ==
    {i \in 0..Len(text) :
        /\ IsCoefficient(SubSeq(text, 1, i))
        /\ \/ i = Len(text)
           \/ IsMarker(SubSeq(text, i + 1, Len(text)))}

\* v of a string split at i: c * N when the marker is present or c < 1,
\* trunc(c) otherwise, with c = 1 when the coefficient is omitted
JobsOf(text, i, N) ==
    LET c == IF i = 0 THEN Decimal(<<"1">>) ELSE Decimal(SubSeq(text, 1, i))
    IN  IF i < Len(text) \/ c.num < c.den
        THEN (c.num * N) \div c.den
        ELSE c.num \div c.den

\* the call returned max(1, v), with a warning exactly when v <= 0
ReturnedJobs(v) ==
    /\ last.exc = "none"
    /\ last.ret = PyInt(FormatNat(IF v < 1 THEN 1 ELSE v))
    /\ last.warns = IF v <= 0 THEN <<"invalid">> ELSE <<>>

\* the results the claim lists for N = 8
ExamplesOn8 ==
    {<< <<"n">>, 8 >>, << <<"2", "n">>, 16 >>, << <<"2", "*", "n">>, 16 >>,
     << <<"2", " ", "*", " ", "n">>, 16 >>, << <<"0", ".", "5", "*", "n">>, 4 >>,
     << <<"0", ".", "5">>, 4 >>, << <<"4">>, 4 >>, << <<"0">>, 1 >>}

\* C12: getnjobs of a found value on a machine of N CPUs returns
\* max(1, trunc(v)), warning when it clamps: for a string of the grammar
\* v = c * N when the n marker is present or c < 1 and trunc(c) otherwise;
\* for an integer v is the integer, for a float its truncation; a string
\* outside the grammar is a ValueError, any other type a TypeError; the
\* listed results on N = 8 come out; every result is an integer >= 1
C12_ParseNJobs ==
    (pc = "returned" /\ last.op = "getnjobs" /\ last.found)
    => LET raw == _cache[LookupKey(last.key, LastCS)]
           text == Strip(raw.v)
           N == last.n
       IN  /\ CASE raw.t = "str" /\ Splits(text) # {} ->
                       \A i \in Splits(text) : ReturnedJobs(JobsOf(text, i, N))
                [] raw.t = "str" -> last.exc = "ValueError"
                [] raw.t = "bool" -> ReturnedJobs(IF raw = PyTrue THEN 1 ELSE 0)
                [] raw.t \in {"int", "float"} -> ReturnedJobs(Trunc(Decimal(raw.v)))
                [] OTHER -> last.exc = "TypeError"
           /\ \A e \in ExamplesOn8 :
                  (raw = PyStr(e[1]) /\ N = 8)
                  => /\ last.exc = "none"
                     /\ last.ret = PyInt(FormatNat(e[2]))
                     /\ (e[1] = <<"0">> => last.warns = <<"invalid">>)
           /\ last.exc = "none"
              => last.ret.t = "int" /\ ParseNat(last.ret.v) >= 1

\* getnjobs has returned 4 for the bare coefficient "0.5" on 8 CPUs
C12_Witness ==
    /\ pc = "returned" /\ last.op = "getnjobs" /\ last.found /\ last.n = 8
    /\ _cache[LookupKey(last.key, LastCS)] = PyStr(<<"0", ".", "5">>)
    /\ last.ret = PyInt(<<"4">>) /\ last.exc = "none" /\ last.warns = <<>>

----------------------------------------------------------------------------
(* C13 *)

\* C13: whatever was read before, every iteration run to completion, in one
\* go or step by step, has yielded the full union of the keys of the
\* registered mappings, len returns the number of keys of that union, and
\* the memoized sequence stays as a complete iteration or len left it
C13_StableUnion ==
    /\ (pc = "returned" /\ last.op = "list") => last.keys = UnionOfKeys
    /\ (pc = "returned" /\ last.op = "len") => last.n = Len(UnionOfKeys)
    /\ \A g \in DOMAIN iters :
           iters[g].mode = "done" => iters[g].out = UnionOfKeys
    /\ ~returned_union.none => _union_keys = returned_union

============================================================================
